---------------------------- MODULE Spec2Model ----------------------------
(***************************************************************************)
(* Release catalog and activation subsystem of the game update server      *)
(* (src/server.py): the two catalog documents data/versions.json and       *)
(* data/launcher_versions.json, the artifact folder downloads/, and the    *)
(* request handlers /api/upload, /api/version/<v>/activate,                *)
(* /api/version/<v> DELETE and their launcher twins.                       *)
(*                                                                         *)
(* A handler is a sequence of steps on the shared files; every step that   *)
(* touches a file is one action, so that the threads of the server can be  *)
(* interleaved.  Spec runs one request at a time (a single worker);        *)
(* SpecConc runs NumReq worker threads (app.run serves threaded).          *)
(***************************************************************************)
EXTENDS Integers, Sequences, FiniteSets, TLC

(***************************************************************************)
(* Bounds of the model                                                     *)
(***************************************************************************)
\* worker threads of SpecConc
NumReq == 2
\* requests started in one behaviour of Spec
MaxOps == 3
\* requests started in one behaviour of SpecConc
MaxConcOps == 4
\* largest value the clock reaches
MaxClock == 1
\* releases of a catalog that the server finds when it starts
MaxEntries == 3
\* requests started in one behaviour of SpecStore
MaxStoreOps == 2
\* requests started in one behaviour of SpecLive
MaxLiveOps == 3

(***************************************************************************)
(* Inputs                                                                  *)
(***************************************************************************)
Channels == {"game", "launcher"}
\* form field upload_type: anything, default 'game'
UploadTypes == {"game", "launcher"}
\* form field / URL segment version, after strip()
Versions == {"1.0", "1.1"}
VersionInputs == Versions \cup {""}
\* the form field release_notes and the byte length of the uploaded payload
Payloads == {[release_notes |-> "", size |-> 1],
             [release_notes |-> "fix", size |-> 20]}
\* file.filename of the uploaded part, as a sequence of characters
ZipName == <<"g", ".", "z", "i", "p">>
UpperZipName == <<"g", ".", "Z", "I", "P">>
ExeName == <<"g", ".", "e", "x", "e">>
NoDotName == <<"z", "i", "p">>
FileNames == {ZipName, UpperZipName, ExeName, NoDotName, <<>>}
\* request.files: the part 'game_file' may be missing
FileInputs ==
    {[filename |-> f, present |-> TRUE] : f \in FileNames}
        \cup {[filename |-> ZipName, present |-> FALSE]}

\* a payload of zero bytes
EmptyPayload == [release_notes |-> "", size |-> 0]
FormPayloads == Payloads \cup {EmptyPayload}
\* the fields of the login form
Usernames == {"admin", "eve"}
Passwords == {"admin123", "guess"}

Reqs == 1 .. NumReq

\* the catalogs a server may find in data/versions.json when it starts: up
\* to MaxEntries releases of different versions, one of them active, in any
\* order of release_date (utcnow() is the wall clock, which can be set back
\* between two uploads)
StoredVersions == {"1.0", "1.1", "1.2"}

StoredRelease(version, release_date, is_active) ==
    [version |-> version,
     download_url |-> "game-v" \o version \o ".zip",
     release_notes |-> "",
     file_size |-> 1,
     release_date |-> release_date,
     is_active |-> is_active]

StoredCatalogs ==
    {<<>>} \cup
    UNION {
        {[k \in 1 .. n |-> StoredRelease(f[k][1], f[k][2], k = a)] :
            f \in {g \in [1 .. n -> StoredVersions \X (0 .. MaxClock)] :
                        \A j, k \in 1 .. n : j # k => g[j][1] # g[k][1]},
            a \in 1 .. n} :
        n \in 1 .. MaxEntries}

VARIABLES
    catalog_file,   \* the catalog document of each channel, as it is on disk
    downloads,      \* UPLOAD_FOLDER: file name -> byte length
    clock,          \* datetime.utcnow()
    req,            \* per worker thread: the request it handles and its locals
    nreq,           \* requests started so far
    base,           \* catalogs and artifacts when the running requests began
    users,          \* the rows of table users of data/users.db
    sqlite_sequence,\* the largest id that AUTOINCREMENT has given out
    session         \* the session cookie the client holds

vars ==
    <<catalog_file, downloads, clock, req, nreq, base, users, sqlite_sequence,
      session>>

(***************************************************************************)
(* ALLOWED_EXTENSIONS and allowed_file                                     *)
(***************************************************************************)
ALLOWED_EXTENSIONS == {<<"z", "i", "p">>}

Lower(c) ==
    CASE c = "Z" -> "z"
      [] c = "I" -> "i"
      [] c = "P" -> "p"
      [] OTHER -> c

\* filename.rsplit('.', 1)[1]: what follows the last '.'
LastDot(filename) ==
    CHOOSE k \in 1 .. Len(filename) :
        /\ filename[k] = "."
        /\ \A j \in (k + 1) .. Len(filename) : filename[j] # "."

Extension(filename) ==
    SubSeq(filename, LastDot(filename) + 1, Len(filename))

\* (faulty variant: any name with a '.' passes)
allowed_file_any_extension(filename) ==
    \E k \in 1 .. Len(filename) : filename[k] = "."

allowed_file(filename) ==
    /\ \E k \in 1 .. Len(filename) : filename[k] = "."
    /\ [k \in 1 .. Len(Extension(filename)) |-> Lower(Extension(filename)[k])]
           \in ALLOWED_EXTENSIONS

(***************************************************************************)
(* Artifact names                                                          *)
(***************************************************************************)
Filename(upload_type, version) ==
    IF upload_type = "launcher"
    THEN "launcher-v" \o version \o ".zip"
    ELSE "game-v" \o version \o ".zip"

\* the catalog an upload of this type goes to
ChannelOf(upload_type) ==
    IF upload_type = "launcher" THEN "launcher" ELSE "game"

(***************************************************************************)
(* The catalog document: json.dump(versions, f, indent=2)                  *)
(***************************************************************************)
\* characters of one entry besides the values of its fields
EntryOverhead == 136
\* len(datetime.utcnow().isoformat())
IsoLen == 26

RECURSIVE Digits(_)
Digits(n) == IF n < 10 THEN 1 ELSE 1 + Digits(n \div 10)

EntryLen(v) ==
    EntryOverhead + Len(v.version) + Len(v.download_url) + Len(v.release_notes)
        + Digits(v.file_size) + IsoLen + (IF v.is_active THEN 4 ELSE 5)

RECURSIVE SumLen(_)
SumLen(versions) ==
    IF versions = <<>> THEN 0
    ELSE EntryLen(Head(versions)) + 2 + SumLen(Tail(versions))

\* length of the document: "[]" or "[\n" entries joined by ",\n" "\n]"
JsonLen(versions) ==
    IF versions = <<>> THEN 2 ELSE 2 + SumLen(versions)

(***************************************************************************)
(* The bytes of the document: json.dump writes them, json.load reads them  *)
(***************************************************************************)
\* the strings of the model, and the characters of each
KnownStrings ==
    {"", "1.0", "1.1", "game-v1.0.zip", "game-v1.1.zip",
     "launcher-v1.0.zip", "launcher-v1.1.zip", "fix", "a\"b", "c\\n", "d\ne",
     "version", "download_url", "release_notes", "file_size", "release_date",
     "is_active", "/../../evil", "game-v/../../evil.zip",
     "launcher-v/../../evil.zip", "../evil.zip"}

Chars(s) ==
    CASE s = "" -> <<>>
      [] s = "1.0" -> <<"1", ".", "0">>
      [] s = "1.1" -> <<"1", ".", "1">>
      [] s = "game-v1.0.zip" -> <<"g", "a", "m", "e", "-", "v", "1", ".", "0", ".", "z", "i", "p">>
      [] s = "game-v1.1.zip" -> <<"g", "a", "m", "e", "-", "v", "1", ".", "1", ".", "z", "i", "p">>
      [] s = "launcher-v1.0.zip" -> <<"l", "a", "u", "n", "c", "h", "e", "r", "-", "v", "1", ".", "0", ".", "z", "i", "p">>
      [] s = "launcher-v1.1.zip" -> <<"l", "a", "u", "n", "c", "h", "e", "r", "-", "v", "1", ".", "1", ".", "z", "i", "p">>
      [] s = "fix" -> <<"f", "i", "x">>
      [] s = "a\"b" -> <<"a", "\"", "b">>
      [] s = "c\\n" -> <<"c", "\\", "n">>
      [] s = "d\ne" -> <<"d", "\n", "e">>
      [] s = "version" -> <<"v", "e", "r", "s", "i", "o", "n">>
      [] s = "download_url" -> <<"d", "o", "w", "n", "l", "o", "a", "d", "_", "u", "r", "l">>
      [] s = "release_notes" -> <<"r", "e", "l", "e", "a", "s", "e", "_", "n", "o", "t", "e", "s">>
      [] s = "file_size" -> <<"f", "i", "l", "e", "_", "s", "i", "z", "e">>
      [] s = "release_date" -> <<"r", "e", "l", "e", "a", "s", "e", "_", "d", "a", "t", "e">>
      [] s = "is_active" -> <<"i", "s", "_", "a", "c", "t", "i", "v", "e">>
      [] s = "/../../evil" -> <<"/", ".", ".", "/", ".", ".", "/", "e", "v", "i", "l">>
      [] s = "game-v/../../evil.zip" -> <<"g", "a", "m", "e", "-", "v", "/", ".", ".", "/", ".", ".", "/", "e", "v", "i", "l", ".", "z", "i", "p">>
      [] s = "launcher-v/../../evil.zip" -> <<"l", "a", "u", "n", "c", "h", "e", "r", "-", "v", "/", ".", ".", "/", ".", ".", "/", "e", "v", "i", "l", ".", "z", "i", "p">>
      [] s = "../evil.zip" -> <<".", ".", "/", "e", "v", "i", "l", ".", "z", "i", "p">>

\* the string with these characters ("?" stands for any other string)
Str(chars) ==
    IF \E s \in KnownStrings : Chars(s) = chars
    THEN CHOOSE s \in KnownStrings : Chars(s) = chars
    ELSE "?"

(***************************************************************************)
(* os.path.join(UPLOAD_FOLDER, filename): the file that the path names     *)
(***************************************************************************)
\* the components of a path, split at "/"
RECURSIVE Split(_, _)
Split(chars, component) ==
    IF chars = <<>> THEN <<component>>
    ELSE IF Head(chars) = "/"
    THEN <<component>> \o Split(Tail(chars), <<>>)
    ELSE Split(Tail(chars), Append(component, Head(chars)))

\* the path seen from UPLOAD_FOLDER once "." and ".." are followed: a ".."
\* that has nothing left to undo leaves the folder
RECURSIVE Follow(_, _)
Follow(components, stack) ==
    IF components = <<>> THEN stack
    ELSE IF Head(components) \in {<<>>, <<".">>}
    THEN Follow(Tail(components), stack)
    ELSE IF Head(components) = <<".", ".">>
            /\ stack # <<>> /\ stack[Len(stack)] # <<".", ".">>
    THEN Follow(Tail(components), SubSeq(stack, 1, Len(stack) - 1))
    ELSE Follow(Tail(components), Append(stack, Head(components)))

RECURSIVE Join(_)
Join(components) ==
    IF components = <<>> THEN <<>>
    ELSE IF Len(components) = 1 THEN components[1]
    ELSE components[1] \o <<"/">> \o Join(Tail(components))

\* the name has a path separator: it names a file in another directory
HasSeparator(filename) ==
    filename \in KnownStrings
        /\ \E k \in 1 .. Len(Chars(filename)) : Chars(filename)[k] = "/"

\* the file, seen from UPLOAD_FOLDER, that the path of this name leads to
Resolve(filename) ==
    IF HasSeparator(filename)
    THEN Str(Join(Follow(Split(Chars(filename), <<>>), <<>>)))
    ELSE filename

\* what open(filepath, 'wb') does: a name without separator is created in
\* UPLOAD_FOLDER; for a name with separators the directories on the way
\* must exist (they are looked up on POSIX, and skipped together with their
\* ".." on Windows), otherwise FileNotFoundError is raised
SaveOutcomes(filename) ==
    IF HasSeparator(filename) THEN {"stored", "raises"} ELSE {"stored"}

\* the file lies outside UPLOAD_FOLDER
Outside(name) ==
    HasSeparator(name) /\ Split(Chars(name), <<>>)[1] = <<".", ".">>

\* datetime.isoformat() of the time t of the clock, and back
IsoPrefix == <<"2", "0", "2", "4", "-", "0", "1", "-", "0", "1", "T", "0", "0", ":", "0", "0", ":", "0", "0", ".", "0", "0", "0", "0", "0">>

DigitChars == <<"0", "1", "2", "3", "4", "5", "6", "7", "8", "9">>

IsDigit(c) == \E d \in 1 .. 10 : DigitChars[d] = c

DigitValue(c) == (CHOOSE d \in 1 .. 10 : DigitChars[d] = c) - 1

isoformat(t) == IsoPrefix \o <<DigitChars[t + 1]>>

fromisoformat(chars) ==
    IF /\ Len(chars) = Len(IsoPrefix) + 1
       /\ SubSeq(chars, 1, Len(IsoPrefix)) = IsoPrefix
       /\ IsDigit(chars[Len(chars)])
    THEN DigitValue(chars[Len(chars)])
    ELSE 0 - 1

\* (faulty variant: nothing is escaped)
EscapeNothing(c) == <<c>>

\* py_encode_basestring_ascii: the escapes of the characters of a string
EscapeChar(c) ==
    CASE c = "\"" -> <<"\\", "\"">>
      [] c = "\\" -> <<"\\", "\\">>
      [] c = "\n" -> <<"\\", "n">>
      [] c = "\t" -> <<"\\", "t">>
      [] OTHER -> <<c>>

RECURSIVE EscapeAll(_)
EscapeAll(chars) ==
    IF chars = <<>> THEN <<>>
    ELSE EscapeChar(Head(chars)) \o EscapeAll(Tail(chars))

StringText(s) == <<"\"">> \o EscapeAll(Chars(s)) \o <<"\"">>

RECURSIVE IntText(_)
IntText(n) ==
    IF n < 10 THEN <<DigitChars[n + 1]>>
    ELSE IntText(n \div 10) \o <<DigitChars[(n % 10) + 1]>>

BoolText(b) ==
    IF b THEN <<"t", "r", "u", "e">> ELSE <<"f", "a", "l", "s", "e">>

\* one member of an entry: four blanks, the key, ": ", the value
MemberText(key, value_text) ==
    <<" ", " ", " ", " ">> \o StringText(key) \o <<":", " ">> \o value_text

\* an entry, as indent=2 lays it out inside the list
EntryText(v) ==
    <<" ", " ", "{", "\n">>
        \o MemberText("version", StringText(v.version)) \o <<",", "\n">>
        \o MemberText("download_url", StringText(v.download_url))
        \o <<",", "\n">>
        \o MemberText("release_notes", StringText(v.release_notes))
        \o <<",", "\n">>
        \o MemberText("file_size", IntText(v.file_size)) \o <<",", "\n">>
        \o MemberText("release_date",
                      <<"\"">> \o isoformat(v.release_date) \o <<"\"">>)
        \o <<",", "\n">>
        \o MemberText("is_active", BoolText(v.is_active))
        \o <<"\n", " ", " ", "}">>

RECURSIVE EntriesText(_)
EntriesText(versions) ==
    IF Len(versions) = 1 THEN EntryText(versions[1])
    ELSE EntryText(Head(versions)) \o <<",", "\n">>
            \o EntriesText(Tail(versions))

\* json.dump(versions, f, indent=2)
json_dump(versions) ==
    IF versions = <<>> THEN <<"[", "]">>
    ELSE <<"[", "\n">> \o EntriesText(versions) \o <<"\n", "]">>

\* the result of a scan: the value and the position behind it, or a
\* JSONDecodeError
Fail == [ok |-> FALSE, val |-> <<>>, pos |-> 0]

Parsed(type, val, pos) ==
    [ok |-> TRUE, val |-> [type |-> type, val |-> val], pos |-> pos]

Whitespace == {" ", "\t", "\n", "\r"}

RECURSIVE SkipWhitespace(_, _)
SkipWhitespace(t, p) ==
    IF p <= Len(t) /\ t[p] \in Whitespace
    THEN SkipWhitespace(t, p + 1)
    ELSE p

Matches(t, p, word) ==
    /\ p + Len(word) - 1 <= Len(t)
    /\ SubSeq(t, p, p + Len(word) - 1) = word

\* the character that an escape stands for
Unescape(c) ==
    CASE c = "n" -> "\n"
      [] c = "t" -> "\t"
      [] c = "r" -> "\r"
      [] OTHER -> c

\* py_scanstring, strict: from behind the opening quote to the closing one
RECURSIVE py_scanstring(_, _, _)
py_scanstring(t, p, acc) ==
    IF p > Len(t) THEN Fail
    ELSE IF t[p] = "\"" THEN Parsed("str", acc, p + 1)
    ELSE IF t[p] \in {"\n", "\t", "\r"} THEN Fail
    ELSE IF t[p] = "\\"
    THEN IF p + 1 <= Len(t) /\ t[p + 1] \in {"\"", "\\", "/", "n", "t", "r"}
         THEN py_scanstring(t, p + 2, Append(acc, Unescape(t[p + 1])))
         ELSE Fail
    ELSE py_scanstring(t, p + 1, Append(acc, t[p]))

\* NUMBER_RE, the integers (json.dump writes no other number here): 0 or a
\* digit from 1 to 9 and digits
RECURSIVE ScanDigits(_, _, _)
ScanDigits(t, p, n) ==
    IF p <= Len(t) /\ IsDigit(t[p])
    THEN ScanDigits(t, p + 1, 10 * n + DigitValue(t[p]))
    ELSE Parsed("int", n, p)

ScanNumber(t, p) ==
    IF t[p] = "0" THEN Parsed("int", 0, p + 1) ELSE ScanDigits(t, p, 0)

\* scan_once, JSONArray and JSONObject of json.decoder
RECURSIVE scan_once(_, _)
RECURSIVE JSONArray(_, _, _)
RECURSIVE JSONObject(_, _, _)
scan_once(t, p) ==
    IF p > Len(t) THEN Fail
    ELSE IF t[p] = "\"" THEN py_scanstring(t, p + 1, <<>>)
    ELSE IF t[p] = "{"
    THEN IF Matches(t, SkipWhitespace(t, p + 1), <<"}">>)
         THEN Parsed("dict", <<>>, SkipWhitespace(t, p + 1) + 1)
         ELSE JSONObject(t, SkipWhitespace(t, p + 1), <<>>)
    ELSE IF t[p] = "["
    THEN IF Matches(t, SkipWhitespace(t, p + 1), <<"]">>)
         THEN Parsed("list", <<>>, SkipWhitespace(t, p + 1) + 1)
         ELSE JSONArray(t, SkipWhitespace(t, p + 1), <<>>)
    ELSE IF Matches(t, p, BoolText(TRUE)) THEN Parsed("bool", TRUE, p + 4)
    ELSE IF Matches(t, p, BoolText(FALSE)) THEN Parsed("bool", FALSE, p + 5)
    ELSE IF Matches(t, p, <<"n", "u", "l", "l">>) THEN Parsed("null", 0, p + 4)
    ELSE IF IsDigit(t[p]) THEN ScanNumber(t, p)
    ELSE IF t[p] = "-" /\ p + 1 <= Len(t) /\ IsDigit(t[p + 1])
    THEN Parsed("int", 0 - ScanNumber(t, p + 1).val.val,
                ScanNumber(t, p + 1).pos)
    ELSE Fail

\* the values of a list from p on, behind the values acc
JSONArray(t, p, acc) ==
    LET v == scan_once(t, p)
        q == SkipWhitespace(t, v.pos)
    IN  IF ~v.ok \/ q > Len(t) THEN Fail
        ELSE IF t[q] = "]" THEN Parsed("list", Append(acc, v.val), q + 1)
        ELSE IF t[q] = ","
        THEN JSONArray(t, SkipWhitespace(t, q + 1), Append(acc, v.val))
        ELSE Fail

\* the members of an object from p on, behind the members acc
JSONObject(t, p, acc) ==
    LET key == IF Matches(t, p, <<"\"">>)
               THEN py_scanstring(t, p + 1, <<>>) ELSE Fail
        colon == SkipWhitespace(t, key.pos)
        v == IF key.ok /\ Matches(t, colon, <<":">>)
             THEN scan_once(t, SkipWhitespace(t, colon + 1)) ELSE Fail
        q == SkipWhitespace(t, v.pos)
        members == Append(acc, <<key.val.val, v.val>>)
    IN  IF ~v.ok \/ q > Len(t) THEN Fail
        ELSE IF t[q] = "}" THEN Parsed("dict", members, q + 1)
        ELSE IF t[q] = "," THEN JSONObject(t, SkipWhitespace(t, q + 1), members)
        ELSE Fail

\* json.loads: one value, with nothing but whitespace around it
json_loads(t) ==
    LET v == scan_once(t, SkipWhitespace(t, 1))
    IN  IF v.ok /\ SkipWhitespace(t, v.pos) = Len(t) + 1 THEN v ELSE Fail

\* the value of a key of an object (of its last member with that key)
HasMember(obj, key) ==
    \E k \in 1 .. Len(obj.val) : obj.val[k][1] = Chars(key)

Member(obj, key) ==
    obj.val[CHOOSE k \in 1 .. Len(obj.val) :
                /\ obj.val[k][1] = Chars(key)
                /\ \A j \in (k + 1) .. Len(obj.val) :
                        obj.val[j][1] # Chars(key)][2]

\* the value is a list of releases
IsCatalog(v) ==
    /\ v.type = "list"
    /\ \A k \in 1 .. Len(v.val) :
            /\ v.val[k].type = "dict"
            /\ \A key \in {"version", "download_url", "release_notes",
                            "release_date"} :
                    HasMember(v.val[k], key)
                        /\ Member(v.val[k], key).type = "str"
            /\ HasMember(v.val[k], "file_size")
            /\ Member(v.val[k], "file_size").type = "int"
            /\ HasMember(v.val[k], "is_active")
            /\ Member(v.val[k], "is_active").type = "bool"

\* the releases of such a list
Releases(v) ==
    [k \in 1 .. Len(v.val) |->
        [version |-> Str(Member(v.val[k], "version").val),
         download_url |-> Str(Member(v.val[k], "download_url").val),
         release_notes |-> Str(Member(v.val[k], "release_notes").val),
         file_size |-> Member(v.val[k], "file_size").val,
         release_date |-> fromisoformat(Member(v.val[k], "release_date").val),
         is_active |-> Member(v.val[k], "is_active").val]]

\* a byte that is no UTF-8: f.read() raises UnicodeDecodeError
InvalidByte == "0xFF"

NoDocument == [kind |-> "absent", doc |-> <<>>, len |-> 0]
Document(versions) == [kind |-> "json", doc |-> versions, len |-> JsonLen(versions)]
Garbage(n) == [kind |-> "garbage", doc |-> <<>>, len |-> n]
\* bytes that are no UTF-8 text
Undecodable(n) == [kind |-> "undecodable", doc |-> <<>>, len |-> n]

\* the document that a file with these bytes is: what json.load makes of
\* them, and their number. A text that is JSON but no list of releases is
\* returned as it is parsed (no file of the model is one)
FileOf(bytes) ==
    LET v == json_loads(bytes)
    IN  IF \E k \in 1 .. Len(bytes) : bytes[k] = InvalidByte
        THEN Undecodable(Len(bytes))
        ELSE IF v.ok /\ IsCatalog(v.val)
        THEN [kind |-> "json", doc |-> Releases(v.val), len |-> Len(bytes)]
        ELSE IF v.ok
        THEN [kind |-> "foreign", doc |-> v.val, len |-> Len(bytes)]
        ELSE Garbage(Len(bytes))

\* f.read() raises UnicodeDecodeError, which load_versions does not catch
load_raises(ch) == catalog_file[ch].kind = "undecodable"

\* load_versions / load_launcher_versions: [] when the file does not exist or
\* does not parse
load_versions(ch) ==
    IF catalog_file[ch].kind \in {"json", "foreign"}
    THEN catalog_file[ch].doc
    ELSE <<>>

\* open(versions_file, 'w'): the file is truncated
OpenForWrite(ch) ==
    catalog_file' = [catalog_file EXCEPT ![ch] = Garbage(0)]

\* what the file holds after `versions` is written at offset 0 of a file that
\* holds n bytes
Overlay(versions, n) ==
    IF JsonLen(versions) >= n THEN Document(versions) ELSE Garbage(n)

\* json.dump and close: the document is written at offset 0
Dump(ch, versions) ==
    catalog_file' =
        [catalog_file EXCEPT ![ch] = Overlay(versions, catalog_file[ch].len)]

(***************************************************************************)
(* The computations of the handlers on the loaded list                     *)
(***************************************************************************)
\* [v for v in versions if v['version'] != version]
RemoveVersion(versions, version) ==
    SelectSeq(versions, LAMBDA v : v.version # version)

\* for v in versions: v['is_active'] = False
DeactivateAll(versions) ==
    [k \in 1 .. Len(versions) |-> [versions[k] EXCEPT !.is_active = FALSE]]

HasVersion(versions, version) ==
    \E k \in 1 .. Len(versions) : versions[k].version = version

\* the first entry with that version (for v in versions: ... break)
TargetIndex(versions, version) ==
    CHOOSE k \in 1 .. Len(versions) :
        /\ versions[k].version = version
        /\ \A j \in 1 .. (k - 1) : versions[j].version # version

\* (faulty variants, used to test the properties: the new release is only
\* appended; the other releases stay as they are; the old entry is kept)
UploadAppendOnly(versions, version_info) ==
    Append(versions, version_info)

UploadNoDeactivate(versions, version_info) ==
    Append(RemoveVersion(versions, version_info.version), version_info)

UploadNoRemove(versions, version_info) ==
    Append(DeactivateAll(versions), version_info)

\* (faulty variant: the new release is put first)
UploadFirst(versions, version_info) ==
    <<version_info>>
        \o DeactivateAll(RemoveVersion(versions, version_info.version))

\* upload: remove the version, deactivate the rest, append the new release
UploadCompute(versions, version_info) ==
    Append(DeactivateAll(RemoveVersion(versions, version_info.version)),
           version_info)

\* (faulty variants: the other releases are not deactivated; the flag of the
\* target is flipped; the first release is activated)
ActivateNoDeactivate(versions, version) ==
    [versions EXCEPT ![TargetIndex(versions, version)].is_active = TRUE]

ActivateToggle(versions, version) ==
    [DeactivateAll(versions) EXCEPT
        ![TargetIndex(versions, version)].is_active =
            ~versions[TargetIndex(versions, version)].is_active]

ActivateFirst(versions, version) ==
    [DeactivateAll(versions) EXCEPT ![1].is_active = TRUE]

\* (faulty variant: the activated release gets a new release_date)
ActivateRestamp(versions, version) ==
    [DeactivateAll(versions) EXCEPT
        ![TargetIndex(versions, version)].is_active = TRUE,
        ![TargetIndex(versions, version)].release_date = 0]

\* activate: deactivate all, then activate the target

ActivateCompute(versions, version) ==
    [DeactivateAll(versions) EXCEPT
        ![TargetIndex(versions, version)].is_active = TRUE]

\* delete: the list without the version
DeleteCompute(versions, version) == RemoveVersion(versions, version)

\* (faulty variant: nothing is refused)
DeleteRefusedNever(target_version) == FALSE

\* (faulty variant: the inactive releases are refused, the active one is not)
DeleteRefusedInactive(target_version) == ~target_version.is_active

\* delete refuses the active release: target_version.get('is_active', False)

DeleteRefused(target_version) == target_version.is_active

\* get_active_version: the first entry with is_active, or None
NoVersion == [version |-> ""]

\* (faulty variant: the first entry, whatever its flag)
get_first_version(ch) ==
    IF load_versions(ch) = <<>> THEN NoVersion ELSE load_versions(ch)[1]

get_active_version(ch) ==
    IF \E k \in 1 .. Len(load_versions(ch)) : load_versions(ch)[k].is_active
    THEN load_versions(ch)[CHOOSE k \in 1 .. Len(load_versions(ch)) :
            /\ load_versions(ch)[k].is_active
            /\ \A j \in 1 .. (k - 1) : ~load_versions(ch)[j].is_active]
    ELSE NoVersion

(***************************************************************************)
(* Requests                                                                *)
(***************************************************************************)
Snapshot ==
    [catalog |-> [c \in Channels |-> load_versions(c)], downloads |-> downloads]

NoInfo ==
    [version |-> "", download_url |-> "", release_notes |-> "",
     file_size |-> 0, release_date |-> 0, is_active |-> FALSE]

\* the JSON body of an answer, where a property reads it
NoBody == <<>>

None == 0

IdleReq ==
    [pc |-> "idle", op |-> "none", channel |-> "game", version |-> "",
     username |-> "", password |-> "", user_id |-> None, user_count |-> 0,
     status |-> 0, location |-> "",
     versions |-> <<>>, version_info |-> NoInfo,
     again |-> FALSE, body |-> NoBody]

InProgress(i) == req[i].pc \notin {"idle", "done", "crashed"}

Quiescent == \A i \in Reqs : ~InProgress(i)

\* the request repeats the one this thread has just answered with 200
Repeats(r, op, ch, version) ==
    /\ r.pc = "done"
    /\ r.status = 200
    /\ r.op = op
    /\ r.channel = ch
    /\ r.version = version

\* the record of a request that enters its handler
NewReq(i, op, ch, version) ==
    [IdleReq EXCEPT
        !.pc = "begin", !.op = op, !.channel = ch, !.version = version,
        !.again = Repeats(req[i], op, ch, version)]

\* a request ends with an HTTP status; its locals are dropped
Returned(r, code) ==
    [r EXCEPT !.pc = "done", !.status = code, !.versions = <<>>]

\* return redirect(url_for(endpoint))
Redirect(r, endpoint) ==
    [Returned(r, 302) EXCEPT !.location = endpoint]

\* thread i takes up request r.  Requests that overlap form one group: it
\* begins when no request is in progress (base is the state then), thread 1
\* takes its first request, and thread i + 1 takes the next one.
Begin(i, r) ==
    /\ nreq' = nreq + 1
    /\ IF Quiescent
       THEN /\ i = 1
            /\ req' = [j \in Reqs |-> IF j = i THEN r ELSE IdleReq]
            /\ base' = Snapshot
       ELSE /\ req[i].pc = "idle"
            /\ \A j \in 1 .. (i - 1) : req[j].pc # "idle"
            /\ req' = [req EXCEPT ![i] = r]
            /\ UNCHANGED base

\* init_database: the default admin user is created when the table is empty
DefaultAdmin == [id |-> 1, username |-> "admin", password |-> "admin123"]

\* a cookie without keys
NoSession == [k \in {} |-> 0]

Init ==
    /\ catalog_file = [c \in Channels |-> NoDocument]
    /\ downloads = [n \in {} |-> 0]
    /\ clock = 0
    /\ req = [i \in Reqs |-> IdleReq]
    /\ nreq = 0
    /\ base = Snapshot
    /\ users = {DefaultAdmin}
    /\ sqlite_sequence = 1
    /\ session = NoSession

\* the catalogs that SpecStore saves: none, one or two releases, with release
\* notes that hold a quote, a backslash or a newline
StorePayloads ==
    <<[release_notes |-> "", size |-> 0],
      [release_notes |-> "fix", size |-> 20],
      [release_notes |-> "a\"b", size |-> 1024],
      [release_notes |-> "c\\n", size |-> 7],
      [release_notes |-> "d\ne", size |-> 100000]>>

StoreRelease(version, payload, release_date, is_active) ==
    [version |-> version,
     download_url |-> "game-v" \o version \o ".zip",
     release_notes |-> payload.release_notes,
     file_size |-> payload.size,
     release_date |-> release_date,
     is_active |-> is_active]

StoreCatalogs ==
    {<<>>}
    \cup {<<StoreRelease("1.0", StorePayloads[k], k % (MaxClock + 1),
                         k % 2 = 1)>> :
            k \in DOMAIN StorePayloads}
    \cup {<<StoreRelease("1.0", StorePayloads[k], 0, FALSE),
            StoreRelease("1.1", StorePayloads[(k % Len(StorePayloads)) + 1],
                         MaxClock, TRUE)>> :
            k \in DOMAIN StorePayloads}

\* the files that a server may find in place of a catalog when it starts: no
\* file, a catalog, a catalog cut short, a catalog with bytes behind it, and
\* bytes that are no text
FoundCatalog ==
    <<StoreRelease("1.0", StorePayloads[2], 0, FALSE),
      StoreRelease("1.1", StorePayloads[3], MaxClock, TRUE)>>

FoundFiles ==
    {NoDocument, FileOf(json_dump(FoundCatalog)), FileOf(<<>>),
     FileOf(json_dump(FoundCatalog) \o <<"]">>),
     FileOf(<<InvalidByte>> \o json_dump(FoundCatalog))}
    \cup {FileOf(SubSeq(json_dump(FoundCatalog), 1, n)) :
            n \in {1, 2, 100, Len(json_dump(FoundCatalog)) - 1}}

\* the server starts on files that it finds in data/
InitFound ==
    /\ catalog_file \in [Channels -> FoundFiles]
    /\ downloads = [n \in {} |-> 0]
    /\ clock = 0
    /\ req = [i \in Reqs |-> IdleReq]
    /\ nreq = 0
    /\ base = Snapshot
    /\ users = {DefaultAdmin}
    /\ sqlite_sequence = 1
    /\ session = NoSession

\* the server starts on a game catalog that earlier runs have left
InitStored ==
    /\ \E versions \in StoredCatalogs :
            /\ catalog_file =
                    [c \in Channels |->
                        IF c = "game" THEN Document(versions) ELSE NoDocument]
            /\ downloads =
                    [n \in {versions[k].download_url : k \in 1 .. Len(versions)}
                        |-> 1]
    /\ clock = 0
    /\ req = [i \in Reqs |-> IdleReq]
    /\ nreq = 0
    /\ base = Snapshot
    /\ users = {DefaultAdmin}
    /\ sqlite_sequence = 1
    /\ session = NoSession

(***************************************************************************)
(* The artifact folder                                                     *)
(***************************************************************************)
\* (faulty variant: the upload clears the folder before it saves the file)
SaveFileAlone(files, name, size) == [n \in {name} |-> size]

\* file.save(filepath): the file is created or overwritten
SaveFile(files, name, size) ==
    [n \in DOMAIN files \cup {name} |-> IF n = name THEN size ELSE files[n]]

\* (faulty variant: the file stays)
RemoveFileNot(files, name) == files

\* if os.path.exists(filepath): os.remove(filepath)

RemoveFile(files, name) ==
    [n \in DOMAIN files \ {name} |-> files[n]]

Min(a, b) == IF a < b THEN a ELSE b

(***************************************************************************)
(* POST /api/upload                                                        *)
(***************************************************************************)
\* the checks of the form, then file.save
upload_game_version(i, file, version, payload, upload_type) ==
    LET r == NewReq(i, "upload", ChannelOf(upload_type), version)
        filename == Filename(upload_type, version)
    IN  /\ IF \/ ~file.present
              \/ version = ""
              \/ file.filename = <<>>
              \/ ~allowed_file(file.filename)
           THEN /\ Begin(i, Returned(r, 400))
                /\ UNCHANGED downloads
           ELSE \E outcome \in SaveOutcomes(filename) :
                IF outcome = "raises"
                THEN /\ Begin(i, Returned(r, 500))
                     /\ UNCHANGED downloads
                ELSE /\ Begin(i, [r EXCEPT
                            !.pc = "getsize",
                            !.version_info =
                                [NoInfo EXCEPT !.version = version,
                                               !.download_url = filename,
                                               !.release_notes = payload.release_notes]])
                     /\ downloads' = SaveFile(downloads, Resolve(filename),
                                              payload.size)
        /\ UNCHANGED <<catalog_file, clock,
                       users, sqlite_sequence, session>>

\* os.path.getsize(filepath) and the version_info with utcnow()
upload_getsize(i) ==
    /\ req[i].pc = "getsize"
    /\ IF Resolve(req[i].version_info.download_url) \in DOMAIN downloads
       THEN \E t \in {clock, Min(clock + 1, MaxClock)} :
                /\ clock' = t
                /\ req' = [req EXCEPT ![i] =
                        [@ EXCEPT
                            !.pc = "load",
                            !.version_info =
                                [@ EXCEPT
                                    !.file_size =
                                        downloads[Resolve(req[i].version_info.download_url)],
                                    !.release_date = t,
                                    !.is_active = TRUE]]]
       ELSE /\ req' = [req EXCEPT ![i] = Returned(@, 500)]
            /\ UNCHANGED clock
    /\ UNCHANGED <<catalog_file, downloads, nreq, base,
                   users, sqlite_sequence, session>>

\* load the catalog of the channel and compute the new list
upload_load(i) ==
    /\ req[i].pc = "load"
    /\ req' = [req EXCEPT ![i] =
            IF load_raises(req[i].channel)
            THEN Returned(@, 500)
            ELSE [@ EXCEPT
                    !.pc = "open",
                    !.versions = UploadCompute(load_versions(req[i].channel),
                                               req[i].version_info)]]
    /\ UNCHANGED <<catalog_file, downloads, clock, nreq, base, users, sqlite_sequence, session>>

(***************************************************************************)
(* save_versions / save_launcher_versions                                  *)
(***************************************************************************)
save_versions_open(i) ==
    /\ req[i].pc = "open"
    /\ OpenForWrite(req[i].channel)
    /\ req' = [req EXCEPT ![i].pc = "dump"]
    /\ UNCHANGED <<downloads, clock, nreq, base, users, sqlite_sequence, session>>

save_versions_dump(i) ==
    /\ req[i].pc = "dump"
    /\ Dump(req[i].channel, req[i].versions)
    /\ req' = [req EXCEPT ![i] = Returned(@, 200)]
    /\ UNCHANGED <<downloads, clock, nreq, base, users, sqlite_sequence, session>>

\* open(versions_file, 'w') raises OSError (no permission, no directory): the
\* file is as it was and the handler's except answers 500
save_versions_open_fails(i) ==
    /\ req[i].pc = "open"
    /\ req' = [req EXCEPT ![i] = Returned(@, 500)]
    /\ UNCHANGED <<catalog_file, downloads, clock, nreq, base, users, sqlite_sequence, session>>

\* (faulty variant: the failure of the write is swallowed and the request is
\* answered as if the catalog were saved)
save_versions_dump_fails_silently(i) ==
    /\ req[i].pc = "dump"
    /\ req' = [req EXCEPT ![i] = Returned(@, 200)]
    /\ UNCHANGED <<catalog_file, downloads, clock, nreq, base, users, sqlite_sequence, session>>

\* json.dump or the close of the file raises OSError (disk full) when none or
\* a part of the text is written: the handler's except answers 500
save_versions_dump_fails(i) ==
    /\ req[i].pc = "dump"
    /\ \E n \in {catalog_file[req[i].channel].len,
                  JsonLen(req[i].versions) - 1} :
            /\ n >= catalog_file[req[i].channel].len
            /\ catalog_file' =
                    [catalog_file EXCEPT ![req[i].channel] = Garbage(n)]
    /\ req' = [req EXCEPT ![i] = Returned(@, 500)]
    /\ UNCHANGED <<downloads, clock, nreq, base, users, sqlite_sequence, session>>

(***************************************************************************)
(* Failures of the artifact folder                                         *)
(***************************************************************************)
\* file.save(filepath) raises OSError after the checks of the form: either
\* the file could not be opened and the folder is as it was, or the file is
\* opened and no byte of the payload is written; the handler's except
\* answers 500
upload_save_fails(i, file, version, payload, upload_type) ==
    LET r == NewReq(i, "upload", ChannelOf(upload_type), version)
        filename == Filename(upload_type, version)
    IN  /\ file.present
        /\ version # ""
        /\ file.filename # <<>>
        /\ allowed_file(file.filename)
        /\ Begin(i, Returned(
                [r EXCEPT !.version_info =
                    [NoInfo EXCEPT !.version = version,
                                   !.download_url = filename,
                                   !.release_notes = payload.release_notes]],
                500))
        /\ downloads' \in {downloads, SaveFile(downloads, filename, 0)}
        /\ UNCHANGED <<catalog_file, clock, users, sqlite_sequence, session>>

\* os.remove(filepath) raises OSError (no permission, file in use): the file
\* stays and the handler's except answers 500
delete_remove_fails(i) ==
    /\ req[i].pc = "remove"
    /\ Resolve(req[i].version_info.download_url) \in DOMAIN downloads
    /\ req' = [req EXCEPT ![i] = Returned(@, 500)]
    /\ UNCHANGED <<catalog_file, downloads, clock, nreq, base, users, sqlite_sequence, session>>

(***************************************************************************)
(* The process                                                             *)
(***************************************************************************)
\* the process is killed while it handles requests: they get no answer, the
\* files stay as they are, and the server is started again
crash ==
    /\ \E i \in Reqs : InProgress(i)
    /\ req' = [i \in Reqs |->
                IF InProgress(i)
                THEN [req[i] EXCEPT !.pc = "crashed", !.versions = <<>>]
                ELSE req[i]]
    /\ UNCHANGED <<catalog_file, downloads, clock, nreq, base, users, sqlite_sequence, session>>

(***************************************************************************)
(* POST /api/version/<version>/activate and its launcher twin              *)
(***************************************************************************)
Activate(i, ch, version) ==
    LET r == NewReq(i, "activate", ch, version)
        versions == load_versions(ch)
    IN  /\ IF load_raises(ch)
           THEN Begin(i, Returned(r, 500))
           ELSE IF ~HasVersion(versions, version)
           THEN Begin(i, Returned(r, 404))
           ELSE Begin(i, [r EXCEPT
                    !.pc = "open",
                    !.versions = ActivateCompute(versions, version)])
        /\ UNCHANGED <<catalog_file, downloads, clock, users, sqlite_sequence, session>>

activate_version(i, version) == Activate(i, "game", version)

activate_launcher_version(i, version) == Activate(i, "launcher", version)

(***************************************************************************)
(* DELETE /api/version/<version> and its launcher twin                     *)
(***************************************************************************)
\* (faulty variant: a Delete of a version that is not in the catalog is
\* answered 200, as if it had removed something)
DeleteAbsentOk(i, ch, version) ==
    LET r == NewReq(i, "delete", ch, version)
        versions == load_versions(ch)
    IN  /\ IF load_raises(ch)
           THEN Begin(i, Returned(r, 500))
           ELSE IF ~HasVersion(versions, version)
           THEN Begin(i, Returned(r, 200))
           ELSE IF DeleteRefused(versions[TargetIndex(versions, version)])
           THEN Begin(i, Returned(r, 400))
           ELSE Begin(i, [r EXCEPT
                    !.pc = "remove",
                    !.versions = versions,
                    !.version_info = versions[TargetIndex(versions, version)]])
        /\ UNCHANGED <<catalog_file, downloads, clock, users, sqlite_sequence, session>>

Delete(i, ch, version) ==
    LET r == NewReq(i, "delete", ch, version)
        versions == load_versions(ch)
    IN  /\ IF load_raises(ch)
           THEN Begin(i, Returned(r, 500))
           ELSE IF ~HasVersion(versions, version)
           THEN Begin(i, Returned(r, 404))
           ELSE IF DeleteRefused(versions[TargetIndex(versions, version)])
           THEN Begin(i, Returned(r, 400))
           ELSE Begin(i, [r EXCEPT
                    !.pc = "remove",
                    !.versions = versions,
                    !.version_info = versions[TargetIndex(versions, version)]])
        /\ UNCHANGED <<catalog_file, downloads, clock, users, sqlite_sequence, session>>

delete_version(i, version) == Delete(i, "game", version)

delete_launcher_version(i, version) == Delete(i, "launcher", version)

\* remove the artifact, then the entry from the list
delete_remove(i) ==
    /\ req[i].pc = "remove"
    /\ downloads' = RemoveFile(downloads,
                               Resolve(req[i].version_info.download_url))
    /\ req' = [req EXCEPT ![i] =
            [@ EXCEPT
                !.pc = "open",
                !.versions = DeleteCompute(req[i].versions, req[i].version)]]
    /\ UNCHANGED <<catalog_file, clock, nreq, base, users, sqlite_sequence, session>>

(***************************************************************************)
(* save_versions and save_launcher_versions, byte by byte                  *)
(***************************************************************************)
\* the file is opened with 'w', json.dump writes the bytes, the file is
\* closed; the caller goes on
Save(i, ch, versions) ==
    LET r == NewReq(i, "save", ch, "")
    IN  /\ Begin(i, Returned([r EXCEPT !.body = versions], 200))
        /\ catalog_file' =
                [catalog_file EXCEPT ![ch] = FileOf(json_dump(versions))]
        /\ UNCHANGED <<downloads, clock, users, sqlite_sequence, session>>

save_versions(i, versions) == Save(i, "game", versions)

save_launcher_versions(i, versions) == Save(i, "launcher", versions)

(***************************************************************************)
(* GET /downloads/<filename>                                               *)
(***************************************************************************)
\* the names a client may ask for
FetchNames == {"game-v1.0.zip", "game-v1.1.zip", "launcher-v1.0.zip",
               "../evil.zip"}

\* (faulty variant: nothing is ever found)
send_nothing(files, filename) == [status |-> 404, body |-> NoBody]

\* send_from_directory(UPLOAD_FOLDER, filename): the bytes of the file (the
\* model has their number), or 404 when the folder has no file of that name;
\* a name with a separator does not match the route
send_from_directory(files, filename) ==
    IF filename \in DOMAIN files /\ ~HasSeparator(filename)
    THEN [status |-> 200, body |-> <<files[filename]>>]
    ELSE [status |-> 404, body |-> NoBody]

download_file(i, filename) ==
    LET r == NewReq(i, "download", "game", "")
        response == send_from_directory(downloads, filename)
    IN  /\ Begin(i, Returned(
                [r EXCEPT !.version_info = [NoInfo EXCEPT !.download_url = filename],
                          !.body = response.body],
                response.status))
        /\ UNCHANGED <<catalog_file, downloads, clock, users, sqlite_sequence, session>>

(***************************************************************************)
(* GET /api/version and GET /api/launcher/version                          *)
(***************************************************************************)
BASE_URL == "http://localhost:8000"

GetCurrent(i, ch) ==
    LET r == NewReq(i, "current", ch, "")
        active_version == get_active_version(ch)
    IN  /\ IF load_raises(ch)
           THEN Begin(i, Returned(r, 500))
           ELSE IF active_version = NoVersion
           THEN Begin(i, Returned(r, 404))
           ELSE Begin(i, Returned(
                    [r EXCEPT !.body =
                        [Version |-> active_version.version,
                         DownloadUrl |-> BASE_URL \o "/downloads/"
                                            \o active_version.download_url,
                         ReleaseNotes |-> active_version.release_notes,
                         FileSize |-> active_version.file_size]], 200))
        /\ UNCHANGED <<catalog_file, downloads, clock, users, sqlite_sequence, session>>

get_current_version(i) == GetCurrent(i, "game")

get_launcher_version(i) == GetCurrent(i, "launcher")

(***************************************************************************)
(* GET /api/version/history and GET /api/launcher/history                  *)
(***************************************************************************)
\* e goes behind the entries whose release_date is not older than its own
RECURSIVE InsertNewestFirst(_, _)
InsertNewestFirst(sorted, e) ==
    IF sorted = <<>> THEN <<e>>
    ELSE IF Head(sorted).release_date >= e.release_date
    THEN <<Head(sorted)>> \o InsertNewestFirst(Tail(sorted), e)
    ELSE <<e>> \o sorted

\* (faulty variants: oldest first; sorted oldest first and then reversed)
RECURSIVE InsertOldestFirst(_, _)
InsertOldestFirst(sorted, e) ==
    IF sorted = <<>> THEN <<e>>
    ELSE IF Head(sorted).release_date <= e.release_date
    THEN <<Head(sorted)>> \o InsertOldestFirst(Tail(sorted), e)
    ELSE <<e>> \o sorted

RECURSIVE SortOldestFirst(_)
SortOldestFirst(versions) ==
    IF versions = <<>> THEN <<>>
    ELSE InsertOldestFirst(
            SortOldestFirst(SubSeq(versions, 1, Len(versions) - 1)),
            versions[Len(versions)])

Reverse(versions) ==
    [k \in 1 .. Len(versions) |-> versions[Len(versions) + 1 - k]]

SortThenReverse(versions) == Reverse(SortOldestFirst(versions))

\* versions.sort(key=lambda x: x.get('release_date', ''), reverse=True): the
\* sort of Python is stable, also with reverse=True
RECURSIVE SortNewestFirst(_)
SortNewestFirst(versions) ==
    IF versions = <<>> THEN <<>>
    ELSE InsertNewestFirst(
            SortNewestFirst(SubSeq(versions, 1, Len(versions) - 1)),
            versions[Len(versions)])

\* (faulty variant: the sorted list is saved)
GetHistorySaving(i, ch) ==
    LET r == NewReq(i, "history", ch, "")
    IN  /\ Begin(i, Returned(
                [r EXCEPT !.body = SortNewestFirst(load_versions(ch))], 200))
        /\ catalog_file' =
                [catalog_file EXCEPT
                    ![ch] = Document(SortNewestFirst(load_versions(ch)))]
        /\ UNCHANGED <<downloads, clock, users, sqlite_sequence, session>>

GetHistory(i, ch) ==
    LET r == NewReq(i, "history", ch, "")
    IN  /\ IF load_raises(ch)
           THEN Begin(i, Returned(r, 500))
           ELSE Begin(i, Returned(
                    [r EXCEPT !.body = SortNewestFirst(load_versions(ch))],
                    200))
        /\ UNCHANGED <<catalog_file, downloads, clock, users, sqlite_sequence, session>>

get_version_history(i) == GetHistory(i, "game")

get_launcher_history(i) == GetHistory(i, "launcher")

(***************************************************************************)
(* /login and /logout                                                      *)
(***************************************************************************)
\* authenticate_user: the id of the user with this name and password, or None
authenticate_user(username, password) ==
    IF \E u \in users : u.username = username /\ u.password = password
    THEN (CHOOSE u \in users :
            u.username = username /\ u.password = password).id
    ELSE None

\* (faulty variant: every request passes)
login_not_required(cookie) == TRUE

\* login_required: the wrapped handler runs only with user_id in the cookie
login_required(cookie) == "user_id" \in DOMAIN cookie

\* the client holds a login
LoggedIn == "user_id" \in DOMAIN session

\* the form of a request to /login or /admin/users/create
FormReq(i, op, username, password) ==
    [NewReq(i, op, "game", "") EXCEPT
        !.username = username, !.password = password]

\* POST /login: the cookie gets user_id and username when the credentials
\* match, and the client is sent to the admin page; otherwise the login page
\* is shown again
login(username, password) ==
    LET r == FormReq(1, "login", username, password)
        user_id == authenticate_user(username, password)
    IN  /\ Quiescent
        /\ session' =
                IF user_id # None
                THEN [user_id |-> user_id, username |-> username]
                ELSE session
        /\ req' = [req EXCEPT ![1] =
                    IF user_id # None
                    THEN Redirect(r, "admin_interface")
                    ELSE Returned(r, 200)]
        /\ UNCHANGED <<catalog_file, downloads, clock, nreq, base, users,
                       sqlite_sequence>>

\* GET /logout, behind login_required: session.clear()
logout ==
    /\ Quiescent
    /\ session' = IF login_required(session) THEN NoSession ELSE session
    /\ req' = [req EXCEPT ![1] =
                Redirect(NewReq(1, "logout", "game", ""), "login")]
    /\ UNCHANGED <<catalog_file, downloads, clock, nreq, base, users,
                   sqlite_sequence>>

(***************************************************************************)
(* The pages and routes behind the login                                   *)
(***************************************************************************)
\* the username of the create-user form, after strip(), and its password
FormUsernames == Usernames \cup {"ab"}

\* <int:user_id> of /admin/users/delete/
UserIds == 1 .. 3

\* GET /admin, behind login_required: the admin page
admin_interface(i) ==
    LET r == NewReq(i, "admin_interface", "game", "")
    IN  /\ Begin(i, IF login_required(session)
                    THEN Returned(r, 200)
                    ELSE Redirect(r, "login"))
        /\ UNCHANGED <<catalog_file, downloads, clock, users,
                       sqlite_sequence, session>>

\* GET /admin/users, behind login_required: the page of get_all_users
manage_users(i) ==
    LET r == NewReq(i, "manage_users", "game", "")
    IN  /\ Begin(i, IF login_required(session)
                    THEN Returned(r, 200)
                    ELSE Redirect(r, "login"))
        /\ UNCHANGED <<catalog_file, downloads, clock, users,
                       sqlite_sequence, session>>

\* create_user returns True unless the INSERT raises sqlite3.IntegrityError:
\* column username is UNIQUE
create_user(username, password) ==
    ~\E u \in users : u.username = username

\* POST /admin/users/create
create_user_route(i, username, password) ==
    LET r == FormReq(i, "create_user", username, password)
        creates ==
            /\ login_required(session)
            /\ Len(username) >= 3
            /\ Len(password) >= 6
            /\ create_user(username, password)
    IN  /\ Begin(i, Redirect(r, IF login_required(session)
                                THEN "manage_users"
                                ELSE "login"))
        /\ users' =
                IF creates
                THEN users \cup {[id |-> sqlite_sequence + 1,
                                  username |-> username,
                                  password |-> password]}
                ELSE users
        /\ sqlite_sequence' =
                IF creates THEN sqlite_sequence + 1 ELSE sqlite_sequence
        /\ UNCHANGED <<catalog_file, downloads, clock, session>>

\* GET /admin/users/delete/<int:user_id>, up to the SELECT COUNT(*) of
\* delete_user: the last user is not deleted
delete_user_route(i, user_id) ==
    LET r == [NewReq(i, "delete_user", "game", "") EXCEPT
                !.user_id = user_id]
        counted == [r EXCEPT !.user_count = Cardinality(users)]
    IN  /\ Begin(i, IF ~login_required(session)
                    THEN Redirect(r, "login")
                    ELSE IF counted.user_count <= 1
                    THEN Redirect(counted, "manage_users")
                    ELSE [counted EXCEPT !.pc = "delete_user"])
        /\ UNCHANGED <<catalog_file, downloads, clock, users,
                       sqlite_sequence, session>>

\* delete_user: DELETE FROM users WHERE id = ?, and the commit
delete_user(i) ==
    /\ req[i].pc = "delete_user"
    /\ users' = {u \in users : u.id # req[i].user_id}
    /\ req' = [req EXCEPT ![i] = Redirect(req[i], "manage_users")]
    /\ UNCHANGED <<catalog_file, downloads, clock, nreq, base,
                   sqlite_sequence, session>>

(***************************************************************************)
(* The server                                                              *)
(***************************************************************************)
\* (faulty variant: the write of the catalog never returns)
StepBlockedDump(i) ==
    \/ upload_getsize(i)
    \/ upload_load(i)
    \/ delete_remove(i)
    \/ save_versions_open(i)

\* thread i takes the next step of its handler
Step(i) ==
    \/ upload_getsize(i)
    \/ upload_load(i)
    \/ delete_remove(i)
    \/ save_versions_open(i)
    \/ save_versions_dump(i)

\* one request at a time, on both channels
Next ==
    \/ \E file \in FileInputs, version \in VersionInputs,
          payload \in Payloads, upload_type \in UploadTypes :
            /\ nreq < MaxOps
            /\ upload_game_version(1, file, version, payload, upload_type)
    \/ \E version \in Versions :
            nreq < MaxOps /\ activate_version(1, version)
    \/ \E version \in Versions :
            nreq < MaxOps /\ activate_launcher_version(1, version)
    \/ \E version \in Versions :
            nreq < MaxOps /\ delete_version(1, version)
    \/ \E version \in Versions :
            nreq < MaxOps /\ delete_launcher_version(1, version)
    \/ Step(1)

Spec == Init /\ [][Next]_vars

\* one request at a time, the queries among them
NextQuery ==
    \/ \E file \in FileInputs, version \in VersionInputs,
          payload \in Payloads, upload_type \in UploadTypes :
            /\ nreq < MaxOps
            /\ upload_game_version(1, file, version, payload, upload_type)
    \/ \E version \in Versions :
            nreq < MaxOps /\ activate_version(1, version)
    \/ \E version \in Versions :
            nreq < MaxOps /\ activate_launcher_version(1, version)
    \/ \E version \in Versions :
            nreq < MaxOps /\ delete_version(1, version)
    \/ \E version \in Versions :
            nreq < MaxOps /\ delete_launcher_version(1, version)
    \/ nreq < MaxOps /\ get_current_version(1)
    \/ nreq < MaxOps /\ get_launcher_version(1)
    \/ nreq < MaxOps /\ get_version_history(1)
    \/ nreq < MaxOps /\ get_launcher_history(1)
    \/ Step(1)

SpecQuery == Init /\ [][NextQuery]_vars

\* queries on the catalogs the server has found
NextHistory ==
    \/ nreq < MaxOps /\ get_current_version(1)
    \/ nreq < MaxOps /\ get_launcher_version(1)
    \/ nreq < MaxOps /\ get_version_history(1)
    \/ nreq < MaxOps /\ get_launcher_history(1)

SpecHistory == InitStored /\ [][NextHistory]_vars

\* the catalog store: saves of catalogs and queries
NextStore ==
    \/ \E versions \in StoreCatalogs :
            nreq < MaxStoreOps /\ save_versions(1, versions)
    \/ \E versions \in StoreCatalogs :
            nreq < MaxStoreOps /\ save_launcher_versions(1, versions)
    \/ nreq < MaxStoreOps /\ get_current_version(1)
    \/ nreq < MaxStoreOps /\ get_launcher_version(1)
    \/ nreq < MaxStoreOps /\ get_version_history(1)
    \/ nreq < MaxStoreOps /\ get_launcher_history(1)

SpecStore == Init /\ [][NextStore]_vars

\* a save of thread i fails
FaultStep(i) ==
    \/ save_versions_open_fails(i)
    \/ save_versions_dump_fails(i)
    \/ delete_remove_fails(i)

\* one request at a time, and saves that fail
NextFault ==
    \/ \E file \in FileInputs, version \in VersionInputs,
          payload \in Payloads, upload_type \in UploadTypes :
            /\ nreq < MaxOps
            /\ upload_game_version(1, file, version, payload, upload_type)
    \/ \E version \in Versions :
            nreq < MaxOps /\ activate_version(1, version)
    \/ \E version \in Versions :
            nreq < MaxOps /\ activate_launcher_version(1, version)
    \/ \E version \in Versions :
            nreq < MaxOps /\ delete_version(1, version)
    \/ \E version \in Versions :
            nreq < MaxOps /\ delete_launcher_version(1, version)
    \/ Step(1)
    \/ FaultStep(1)
    \/ \E file \in FileInputs, version \in VersionInputs,
          payload \in Payloads, upload_type \in UploadTypes :
            /\ nreq < MaxOps
            /\ upload_save_fails(1, file, version, payload, upload_type)

SpecFault == Init /\ [][NextFault]_vars

\* one request at a time, and the process may be killed
NextCrash ==
    \/ \E file \in FileInputs, version \in VersionInputs,
          payload \in Payloads, upload_type \in UploadTypes :
            /\ nreq < MaxOps
            /\ upload_game_version(1, file, version, payload, upload_type)
    \/ \E version \in Versions :
            nreq < MaxOps /\ activate_version(1, version)
    \/ \E version \in Versions :
            nreq < MaxOps /\ activate_launcher_version(1, version)
    \/ \E version \in Versions :
            nreq < MaxOps /\ delete_version(1, version)
    \/ \E version \in Versions :
            nreq < MaxOps /\ delete_launcher_version(1, version)
    \/ Step(1)
    \/ crash

SpecCrash == Init /\ [][NextCrash]_vars

\* the launcher catalog that the server finds may be no text
InitIO ==
    /\ catalog_file \in
            {[c \in Channels |-> IF c = "game" THEN NoDocument ELSE f] :
                f \in {NoDocument,
                       FileOf(<<InvalidByte>> \o json_dump(FoundCatalog))}}
    /\ downloads = [n \in {} |-> 0]
    /\ clock = 0
    /\ req = [i \in Reqs |-> IdleReq]
    /\ nreq = 0
    /\ base = Snapshot
    /\ users = {DefaultAdmin}
    /\ sqlite_sequence = 1
    /\ session = NoSession

\* one request at a time, with failing reads and writes of the files
SpecIO == InitIO /\ [][NextFault]_vars

\* a version that is a path
TraversalVersion == "/../../evil"
PathVersions == {"1.0", TraversalVersion}

\* one request at a time, with versions that are paths
NextPath ==
    \/ \E file \in FileInputs, version \in PathVersions,
          payload \in Payloads, upload_type \in UploadTypes :
            /\ nreq < MaxOps
            /\ upload_game_version(1, file, version, payload, upload_type)
    \/ \E version \in PathVersions :
            nreq < MaxOps /\ activate_version(1, version)
    \/ \E version \in PathVersions :
            nreq < MaxOps /\ activate_launcher_version(1, version)
    \/ \E version \in PathVersions :
            nreq < MaxOps /\ delete_version(1, version)
    \/ \E version \in PathVersions :
            nreq < MaxOps /\ delete_launcher_version(1, version)
    \/ Step(1)

SpecPath == Init /\ [][NextPath]_vars

\* one request at a time, downloads among them, by clients with and
\* without a session
NextFetch ==
    \/ \E file \in FileInputs, version \in VersionInputs,
          payload \in Payloads, upload_type \in UploadTypes :
            /\ nreq < MaxOps
            /\ upload_game_version(1, file, version, payload, upload_type)
    \/ \E version \in Versions :
            nreq < MaxOps /\ activate_version(1, version)
    \/ \E version \in Versions :
            nreq < MaxOps /\ activate_launcher_version(1, version)
    \/ \E version \in Versions :
            nreq < MaxOps /\ delete_version(1, version)
    \/ \E version \in Versions :
            nreq < MaxOps /\ delete_launcher_version(1, version)
    \/ Step(1)
    \/ \E filename \in FetchNames :
            nreq < MaxOps /\ download_file(1, filename)
    \/ \E username \in Usernames, password \in Passwords :
            login(username, password)
    \/ logout

SpecFetch == Init /\ [][NextFetch]_vars

\* the form field upload_type is free text
AnyUploadTypes == UploadTypes \cup {"beta"}

\* one request at a time, with uploads of any upload_type
NextType ==
    \/ \E file \in FileInputs, version \in VersionInputs,
          payload \in Payloads, upload_type \in AnyUploadTypes :
            /\ nreq < MaxOps
            /\ upload_game_version(1, file, version, payload, upload_type)
    \/ \E version \in Versions :
            nreq < MaxOps /\ activate_version(1, version)
    \/ \E version \in Versions :
            nreq < MaxOps /\ activate_launcher_version(1, version)
    \/ \E version \in Versions :
            nreq < MaxOps /\ delete_version(1, version)
    \/ \E version \in Versions :
            nreq < MaxOps /\ delete_launcher_version(1, version)
    \/ Step(1)

SpecType == Init /\ [][NextType]_vars

\* queries on the files the server has found
SpecFound == InitFound /\ [][NextHistory]_vars

\* one request at a time from a client that may log in and out, and whose
\* uploads may have a payload of zero bytes
NextForm ==
    \/ \E file \in FileInputs, version \in VersionInputs,
          payload \in FormPayloads, upload_type \in UploadTypes :
            /\ nreq < MaxOps
            /\ upload_game_version(1, file, version, payload, upload_type)
    \/ \E version \in Versions :
            nreq < MaxOps /\ activate_version(1, version)
    \/ \E version \in Versions :
            nreq < MaxOps /\ activate_launcher_version(1, version)
    \/ \E version \in Versions :
            nreq < MaxOps /\ delete_version(1, version)
    \/ \E version \in Versions :
            nreq < MaxOps /\ delete_launcher_version(1, version)
    \/ Step(1)
    \/ \E username \in Usernames, password \in Passwords :
            login(username, password)
    \/ logout

SpecForm == Init /\ [][NextForm]_vars

\* one request at a time on the pages and routes behind the login
NextGate ==
    \/ \E username \in Usernames, password \in Passwords :
            login(username, password)
    \/ logout
    \/ nreq < MaxOps /\ admin_interface(1)
    \/ nreq < MaxOps /\ manage_users(1)
    \/ \E username \in FormUsernames, password \in Passwords :
            nreq < MaxOps /\ create_user_route(1, username, password)
    \/ \E user_id \in UserIds :
            nreq < MaxOps /\ delete_user_route(1, user_id)
    \/ delete_user(1)

SpecGate == Init /\ [][NextGate]_vars

\* the threaded server: requests to create and to delete users interleave
NextUsers ==
    \/ \E username \in Usernames, password \in Passwords :
            login(username, password)
    \/ \E i \in Reqs, username \in FormUsernames, password \in Passwords :
            nreq < MaxConcOps /\ create_user_route(i, username, password)
    \/ \E i \in Reqs, user_id \in UserIds :
            nreq < MaxConcOps /\ delete_user_route(i, user_id)
    \/ \E i \in Reqs : delete_user(i)

SpecUsers == Init /\ [][NextUsers]_vars

\* the threaded server: the steps of concurrent requests on the game channel
\* interleave
NextConc ==
    \/ \E i \in Reqs, file \in FileInputs, version \in VersionInputs,
          payload \in Payloads :
            /\ nreq < MaxConcOps
            /\ upload_game_version(i, file, version, payload, "game")
    \/ \E i \in Reqs, version \in Versions :
            nreq < MaxConcOps /\ activate_version(i, version)
    \/ \E i \in Reqs, version \in Versions :
            nreq < MaxConcOps /\ delete_version(i, version)
    \/ \E i \in Reqs : Step(i)

SpecConc == Init /\ [][NextConc]_vars

\* the threaded server on both channels, queries among the requests; every
\* thread that has a step to take is scheduled in the end
NextLive ==
    \/ \E i \in Reqs, version \in Versions, upload_type \in UploadTypes :
            /\ nreq < MaxLiveOps
            /\ upload_game_version(i, [filename |-> ZipName, present |-> TRUE],
                                   version, [release_notes |-> "", size |-> 1],
                                   upload_type)
    \/ \E i \in Reqs, version \in Versions :
            nreq < MaxLiveOps /\ activate_version(i, version)
    \/ \E i \in Reqs, version \in Versions :
            nreq < MaxLiveOps /\ activate_launcher_version(i, version)
    \/ \E i \in Reqs, version \in Versions :
            nreq < MaxLiveOps /\ delete_version(i, version)
    \/ \E i \in Reqs, version \in Versions :
            nreq < MaxLiveOps /\ delete_launcher_version(i, version)
    \/ \E i \in Reqs : nreq < MaxLiveOps /\ get_current_version(i)
    \/ \E i \in Reqs : nreq < MaxLiveOps /\ get_launcher_version(i)
    \/ \E i \in Reqs : nreq < MaxLiveOps /\ get_version_history(i)
    \/ \E i \in Reqs : nreq < MaxLiveOps /\ get_launcher_history(i)
    \/ \E i \in Reqs : Step(i)

SpecLive ==
    Init /\ [][NextLive]_vars /\ \A i \in Reqs : WF_vars(Step(i))

(***************************************************************************)
(* Vocabulary of the properties                                            *)
(***************************************************************************)
ActiveCount(versions) ==
    Cardinality({k \in 1 .. Len(versions) : versions[k].is_active})

\* at most one active release, and exactly one iff the list is non-empty
OneActive(versions) ==
    /\ ActiveCount(versions) <= 1
    /\ ActiveCount(versions) = 1 <=> Len(versions) > 0

Entries(versions) == {versions[k] : k \in 1 .. Len(versions)}

VersionsOf(versions) == {versions[k].version : k \in 1 .. Len(versions)}

\* thread 1 has answered a request `op`
Answered(op) == req[1].pc = "done" /\ req[1].op = op

(***************************************************************************)
(* Properties                                                              *)
(***************************************************************************)
\* the request thread 1 has answered, and the catalog of its channel before
\* and after it
TheChannel == req[1].channel
TheVersion == req[1].version
Old == base.catalog[TheChannel]
New == load_versions(TheChannel)
OtherChannelsUnchanged ==
    \A c \in Channels \ {TheChannel} : load_versions(c) = base.catalog[c]

\* C1: when requests run one after another from empty catalogs, after each
\* call every channel's catalog has at most one active release, and exactly
\* one iff it is non-empty.
C1_OneActiveAfterEachCall ==
    Quiescent => \A c \in Channels : OneActive(load_versions(c))

\* a Delete has succeeded and left a non-empty catalog
C1_Witness ==
    /\ Answered("delete")
    /\ req[1].status = 200
    /\ Len(New) = 1
    /\ ActiveCount(New) = 1

\* the catalog after request r has run alone on catalog cat
SeqApply(cat, r) ==
    CASE r.op = "upload" ->
            IF r.status = 400 THEN cat
            ELSE UploadCompute(cat, [r.version_info EXCEPT !.is_active = TRUE])
      [] r.op = "activate" ->
            IF HasVersion(cat, r.version)
            THEN ActivateCompute(cat, r.version) ELSE cat
      [] r.op = "delete" ->
            IF /\ HasVersion(cat, r.version)
               /\ ~DeleteRefused(cat[TargetIndex(cat, r.version)])
            THEN DeleteCompute(cat, r.version) ELSE cat
      [] OTHER -> cat

\* the catalogs that the requests of the threads in S leave when they run one
\* after another, in any order, from catalog cat
RECURSIVE SerialResults(_, _)
SerialResults(cat, S) ==
    IF S = {} THEN {cat}
    ELSE UNION {SerialResults(SeqApply(cat, req[i]), S \ {i}) : i \in S}

\* C2: concurrent requests on one channel are serialized: when the requests
\* that overlapped have all been answered, the catalog is the one some
\* sequential order of them produces; in particular two concurrent uploads of
\* different versions are both in the catalog.
C2_Serialized ==
    Quiescent =>
        /\ load_versions("game") \in
                SerialResults(base.catalog["game"],
                              {i \in Reqs : req[i].pc = "done"})
        /\ \A i, j \in Reqs :
                (/\ req[i].pc = "done" /\ req[j].pc = "done"
                 /\ req[i].op = "upload" /\ req[j].op = "upload"
                 /\ req[i].status = 200 /\ req[j].status = 200
                 /\ req[i].version # req[j].version)
                => {req[i].version, req[j].version}
                       \subseteq VersionsOf(load_versions("game"))

C4_AtomicReplace ==
    \A i \in Reqs :
        req[i].pc = "dump" =>
            /\ load_versions(req[i].channel) \in
                    {base.catalog[req[i].channel], req[i].versions}
            /\ base.catalog[req[i].channel] # <<>> =>
                    get_active_version(req[i].channel) # NoVersion

\* C5: a successful Upload stores the artifact before it replaces the
\* catalog; afterwards the uploaded release is in the catalog and active,
\* every other entry is inactive and otherwise as it was, and
\* get_active_version returns the uploaded version.
C5_UploadEffect ==
    /\ (req[1].op = "upload" /\ req[1].pc \in {"load", "open", "dump"}) =>
            req[1].version_info.download_url \in DOMAIN downloads
    /\ (req[1].op = "upload" /\ req[1].pc \in {"getsize", "load", "open"}) =>
            /\ catalog_file[TheChannel] # Garbage(0)
            /\ New = Old
    /\ (Answered("upload") /\ req[1].status = 200) =>
            /\ req[1].version_info.download_url \in DOMAIN downloads
            /\ req[1].version_info.version = TheVersion
            /\ req[1].version_info.is_active
            /\ req[1].version_info \in Entries(New)
            /\ \A e \in Entries(New) : e.is_active <=> e.version = TheVersion
            /\ {e \in Entries(New) : e.version # TheVersion} =
                    {[e EXCEPT !.is_active = FALSE] :
                        e \in {x \in Entries(Old) : x.version # TheVersion}}
            /\ Len(New) = Cardinality(VersionsOf(Old) \cup {TheVersion})
            /\ get_active_version(TheChannel).version = TheVersion

\* an Upload has succeeded on a catalog that held another, active release
C5_Witness ==
    /\ Answered("upload")
    /\ req[1].status = 200
    /\ \E e \in Entries(Old) : e.version # TheVersion /\ e.is_active
    /\ Len(New) = 2

\* C6: no two entries of a channel have the same version, and an Upload of a
\* version that is in the catalog replaces its entry wholesale: the catalog
\* has as many entries as before and one entry for the version, the new
\* release with the size of the new artifact and the time of the upload.
C6_UniqueVersions ==
    /\ \A c \in Channels :
            Cardinality(VersionsOf(load_versions(c))) = Len(load_versions(c))
    /\ (Answered("upload") /\ req[1].status = 200
            /\ TheVersion \in VersionsOf(Old)) =>
            /\ Len(New) = Len(Old)
            /\ {e \in Entries(New) : e.version = TheVersion} =
                    {req[1].version_info}
            /\ req[1].version_info.is_active
            /\ req[1].version_info.file_size =
                    downloads[req[1].version_info.download_url]
            /\ req[1].version_info.release_date = clock

\* a version has been uploaded again, with another payload and at a later time
C6_Witness ==
    /\ Answered("upload")
    /\ req[1].status = 200
    /\ \E e \in Entries(Old) :
            /\ e.version = TheVersion
            /\ e.file_size # req[1].version_info.file_size
            /\ e.release_notes # req[1].version_info.release_notes
            /\ e.release_date # req[1].version_info.release_date

\* C7: Delete of the active release is answered 400 (InvalidState) and leaves
\* the catalogs and the artifacts as they were, also when it is the only
\* release.
C7_DeleteActiveRefused ==
    (/\ Answered("delete")
     /\ HasVersion(Old, TheVersion)
     /\ Old[TargetIndex(Old, TheVersion)].is_active) =>
        /\ req[1].status = 400
        /\ \A c \in Channels : load_versions(c) = base.catalog[c]
        /\ downloads = base.downloads

\* Delete of the active release of a catalog of two releases was refused
C7_Witness ==
    /\ Answered("delete")
    /\ req[1].status = 400
    /\ Len(Old) = 2
    /\ Old[TargetIndex(Old, TheVersion)].is_active

\* C8: Delete of a present, inactive release succeeds, removes that entry and
\* its artifact, and leaves every other entry, flag and artifact as it was.
C8_DeleteEffect ==
    (/\ Answered("delete")
     /\ HasVersion(Old, TheVersion)
     /\ ~Old[TargetIndex(Old, TheVersion)].is_active) =>
        LET t == TargetIndex(Old, TheVersion) IN
        /\ req[1].status = 200
        /\ New = [k \in 1 .. (Len(Old) - 1) |->
                    IF k < t THEN Old[k] ELSE Old[k + 1]]
        /\ Old[t].download_url \in DOMAIN base.downloads
        /\ DOMAIN downloads = DOMAIN base.downloads \ {Old[t].download_url}
        /\ \A n \in DOMAIN downloads : downloads[n] = base.downloads[n]
        /\ OtherChannelsUnchanged

\* an inactive release was deleted and the active one is still there
C8_Witness ==
    /\ Answered("delete")
    /\ req[1].status = 200
    /\ Len(Old) = 2
    /\ Len(New) = 1
    /\ New[1].is_active
    /\ New[1].download_url \in DOMAIN downloads

\* the list with its flags set to `flags`
WithFlags(versions, flags) ==
    [k \in 1 .. Len(versions) |-> [versions[k] EXCEPT !.is_active = flags[k]]]

\* C9: Activate of a version that is in the catalog succeeds and leaves that
\* entry active and every other entry of the channel inactive; nothing else
\* of an entry changes.  The list the handler computes has these flags
\* whatever the flags of the loaded list are.
C9_ActivateEffect ==
    (Answered("activate") /\ HasVersion(Old, TheVersion)) =>
        /\ req[1].status = 200
        /\ Len(New) = Len(Old)
        /\ \A k \in 1 .. Len(New) :
                /\ New[k].is_active <=> New[k].version = TheVersion
                /\ New[k] = [Old[k] EXCEPT !.is_active = New[k].is_active]
        /\ \A flags \in [1 .. Len(Old) -> BOOLEAN] :
                ActivateCompute(WithFlags(Old, flags), TheVersion) = New

\* a release that was inactive was activated, and the active one deactivated
C9_Witness ==
    /\ Answered("activate")
    /\ req[1].status = 200
    /\ Len(Old) = 2
    /\ ~Old[TargetIndex(Old, TheVersion)].is_active
    /\ New[TargetIndex(New, TheVersion)].is_active

C11_AbsentNotFound ==
    (/\ Answered("activate") \/ Answered("delete")
     /\ ~HasVersion(Old, TheVersion)) =>
        /\ req[1].status = 404
        /\ \A c \in Channels : load_versions(c) = base.catalog[c]
        /\ downloads = base.downloads

\* a Delete of a version that a catalog of one release does not hold was
\* answered 404
C11_Witness ==
    /\ Answered("delete")
    /\ req[1].status = 404
    /\ Len(Old) = 1
    /\ DOMAIN downloads # {}

\* C12: an Upload with an empty version, or with a file whose name has not
\* the extension zip, is answered 400 (InvalidInput) in the step in which it
\* arrives: the handler ends there, no artifact is written and the catalog
\* files stay as they are.
C12_InvalidUploadRejected ==
    [][\A file \in FileInputs, version \in VersionInputs,
          payload \in Payloads, upload_type \in UploadTypes :
            (/\ upload_game_version(1, file, version, payload, upload_type)
             /\ version = "" \/ file.filename \in {ExeName, NoDotName})
            => /\ req'[1].pc = "done"
               /\ req'[1].status = 400
               /\ UNCHANGED <<catalog_file, downloads>>]_vars

\* an Upload with an empty version was answered 400 when the catalog of its
\* channel held a release
C12_Witness ==
    /\ Answered("upload")
    /\ TheVersion = ""
    /\ req[1].status = 400
    /\ Len(New) = 1
    /\ New[1].download_url \in DOMAIN downloads

\* C13: an Upload with a payload of zero bytes is not answered 200, and no
\* catalog ever holds a release whose file_size is that of an empty payload.
C13_EmptyPayloadRejected ==
    /\ \A c \in Channels :
            \A e \in Entries(load_versions(c)) : e.file_size > 0
    /\ (Answered("upload") /\ req[1].status = 200) =>
            req[1].version_info.file_size > 0

\* C14: a request of a client that holds no login session changes neither a
\* catalog file nor the artifact folder.
C14_MutationsAuthorized ==
    [][~LoggedIn => UNCHANGED <<catalog_file, downloads>>]_vars

\* C15: GET /api/version (and its launcher twin) is answered 404 when the
\* catalog of the channel has no active release, in particular when it is
\* empty, and otherwise 200 with the version, the release notes and the file
\* size of the one release whose is_active is true.
C15_GetActive ==
    Answered("current") =>
        IF ActiveCount(New) = 0
        THEN req[1].status = 404
        ELSE /\ req[1].status = 200
             /\ ActiveCount(New) = 1
             /\ \A e \in Entries(New) :
                    e.is_active =>
                        /\ req[1].body.Version = e.version
                        /\ req[1].body.ReleaseNotes = e.release_notes
                        /\ req[1].body.FileSize = e.file_size

\* the query was answered from a catalog of two releases whose first is
\* inactive
C15_Witness ==
    /\ Answered("current")
    /\ req[1].status = 200
    /\ Len(New) = 2
    /\ ~New[1].is_active
    /\ req[1].body.Version = New[2].version

\* C16: GET /api/version/history (and its launcher twin) answers with every
\* release of the catalog exactly once, ordered by release_date descending,
\* releases of equal release_date in the order of the catalog.
C16_HistoryOrder ==
    Answered("history") =>
        LET h == req[1].body
            n == Len(New)
        IN  /\ req[1].status = 200
            /\ Len(h) = n
            /\ \E p \in [1 .. n -> 1 .. n] :
                    /\ \A j, k \in 1 .. n : j # k => p[j] # p[k]
                    /\ \A k \in 1 .. n : h[k] = New[p[k]]
            /\ \A k \in 1 .. (n - 1) :
                    h[k].release_date >= h[k + 1].release_date
            /\ \A j, k \in 1 .. n :
                    (j < k /\ h[j].release_date = h[k].release_date) =>
                        TargetIndex(New, h[j].version)
                            < TargetIndex(New, h[k].version)

\* the history of three releases, two of them of the same release_date and
\* the newest last in the catalog
C16_Witness ==
    /\ Answered("history")
    /\ Len(New) = 3
    /\ New[1].release_date = New[2].release_date
    /\ New[3].release_date > New[1].release_date
    /\ req[1].body = <<New[3], New[1], New[2]>>

\* C17 (as stated): an Upload puts its release at the end of the catalog, so
\* of two releases of a channel the one further back is the one uploaded
\* later; the history lists it first, whatever the two release_dates are.
C17_NewestUploadFirst ==
    Answered("history") =>
        \A j, k \in 1 .. Len(New) :
            j < k => TargetIndex(req[1].body, New[k].version)
                        < TargetIndex(req[1].body, New[j].version)

\* C17 (amended): the history lists the release uploaded later first when its
\* release_date is the later one, and after the other release when the clock
\* gave both uploads the same release_date.
C17_LaterDateFirst ==
    Answered("history") =>
        \A j, k \in 1 .. Len(New) :
            j < k =>
                /\ New[j].release_date < New[k].release_date =>
                        TargetIndex(req[1].body, New[k].version)
                            < TargetIndex(req[1].body, New[j].version)
                /\ New[j].release_date = New[k].release_date =>
                        TargetIndex(req[1].body, New[j].version)
                            < TargetIndex(req[1].body, New[k].version)

\* the history after two uploads at different times
C17_Witness ==
    /\ Answered("history")
    /\ Len(New) = 2
    /\ New[1].release_date < New[2].release_date
    /\ req[1].body[1].version = New[2].version
    /\ req[1].body[1].is_active

\* C18: a catalog that save_versions has written is the catalog that
\* load_versions returns as long as nothing else is written: the same
\* releases with the same fields in the same order.
C18_RoundTrip ==
    Answered("save") =>
        /\ ~load_raises(TheChannel)
        /\ load_versions(TheChannel) = req[1].body

\* a catalog of two releases was saved whose release notes hold a quote and
\* a backslash
C18_Witness ==
    /\ Answered("save")
    /\ Len(req[1].body) = 2
    /\ req[1].body[1].release_notes = "a\"b"
    /\ req[1].body[2].release_notes = "c\\n"
    /\ catalog_file[TheChannel].len > JsonLen(req[1].body)

\* the catalog file of the channel does not exist or is no catalog
MissingOrCorrupt(ch) ==
    catalog_file[ch].kind \in {"absent", "garbage", "undecodable"}

\* C19: when the catalog file does not exist or is corrupt, load_versions
\* returns [] and raises nothing: GET /api/version is answered 404 and GET
\* /api/version/history 200 with an empty list, never with an error (and
\* likewise their launcher twins).
C19_LoadNeverFails ==
    \A c \in Channels :
        MissingOrCorrupt(c) =>
            /\ load_versions(c) = <<>>
            /\ (Answered("current") /\ TheChannel = c) => req[1].status = 404
            /\ (Answered("history") /\ TheChannel = c) =>
                    req[1].status = 200 /\ req[1].body = <<>>

\* C20: when the save of the catalog fails in an Upload whose artifact is
\* stored, a later load returns the catalog as it was before the Upload, with
\* the same active release, and the artifact is the only residue; and no
\* Upload writes the catalog before its artifact is stored.
C20_FailedReplaceKeepsCatalog ==
    /\ \A i \in Reqs :
            (req[i].op = "upload" /\ req[i].pc \in {"open", "dump"}) =>
                req[i].version_info.download_url \in DOMAIN downloads
    /\ (/\ Answered("upload")
        /\ req[1].status = 500
        /\ req[1].version_info.download_url \in DOMAIN downloads) =>
            /\ load_versions(TheChannel) = Old
            /\ OtherChannelsUnchanged

\* every entry of these catalogs has its artifact among these files
Intact(catalog, files) ==
    \A c \in Channels :
        \A k \in 1 .. Len(catalog[c]) :
            catalog[c][k].download_url \in DOMAIN files

\* C21: when the process is killed in an Upload after the artifact is written
\* and before the catalog is replaced, every entry of the persisted catalogs
\* still has its artifact in the folder (if it had one before the Upload).
C21_CrashKeepsArtifacts ==
    (/\ req[1].pc = "crashed"
     /\ req[1].op = "upload"
     /\ Intact(base.catalog, base.downloads)) =>
        Intact([c \in Channels |-> load_versions(c)], downloads)

\* the process was killed in an Upload of a version that the catalog holds,
\* next to another release: the artifact is written anew, the catalog is as
\* it was
C21_Witness ==
    /\ req[1].pc = "crashed"
    /\ req[1].op = "upload"
    /\ Len(Old) = 2
    /\ Intact(base.catalog, base.downloads)
    /\ load_versions(TheChannel) = Old
    /\ HasVersion(Old, TheVersion)
    /\ Filename(TheChannel, TheVersion) \in DOMAIN downloads
    /\ downloads # base.downloads

\* C22: when the artifact of a present, inactive release cannot be deleted,
\* Delete still removes the entry: once the request is answered the artifact
\* is left in the folder and the catalog has no entry for the version.
C22_DeleteSurvivesArtifactFailure ==
    (/\ Answered("delete")
     /\ HasVersion(Old, TheVersion)
     /\ ~Old[TargetIndex(Old, TheVersion)].is_active
     /\ Old[TargetIndex(Old, TheVersion)].download_url
            \in DOMAIN base.downloads
     /\ Old[TargetIndex(Old, TheVersion)].download_url
            \in DOMAIN downloads) =>
        ~HasVersion(load_versions(TheChannel), TheVersion)

\* C27: no failure escapes a handler: every request ends with one of the
\* statuses 200, 400, 404, 500; an Upload whose artifact could not be written
\* is answered 500 and leaves the catalogs as they were; an Activate or
\* Delete whose catalog cannot be read, or whose write of the catalog failed,
\* is answered 500.
C27_FailuresAnswered ==
    /\ req[1].pc # "crashed"
    /\ req[1].pc = "done" => req[1].status \in {200, 400, 404, 500}
    /\ (/\ Answered("upload")
        /\ req[1].version_info.download_url # ""
        /\ ~req[1].version_info.is_active) =>
            /\ req[1].status = 500
            /\ \A c \in Channels : load_versions(c) = base.catalog[c]
    /\ ((Answered("activate") \/ Answered("delete")) /\ load_raises(TheChannel))
            => req[1].status = 500
    /\ (/\ req[1].pc = "done"
        /\ Old # <<>>
        /\ catalog_file[TheChannel].kind = "garbage") =>
            req[1].status = 500

\* an Activate was answered 500 after its write of the catalog failed
C27_Witness ==
    /\ Answered("activate")
    /\ req[1].status = 500
    /\ Len(Old) = 2
    /\ catalog_file[TheChannel].kind = "garbage"
    /\ load_raises("launcher")

\* C23: the artifact of a release is named by channel and version alone,
\* whatever file name the client sends: every entry's download_url is the
\* name made of its channel and version, and every stored file lies in the
\* artifact folder.
C23_ArtifactRefFromChannelVersion ==
    /\ \A c \in Channels :
            \A k \in 1 .. Len(load_versions(c)) :
                load_versions(c)[k].download_url =
                    Filename(c, load_versions(c)[k].version)
    /\ \A name \in DOMAIN downloads : ~Outside(name)

\* the size of the file that the download_url of an entry leads to (-1 when
\* there is none)
ArtifactSize(files, v) ==
    IF Resolve(v.download_url) \in DOMAIN files
    THEN files[Resolve(v.download_url)]
    ELSE 0 - 1

\* C24: an Upload, Activate or Delete on one channel leaves the catalog of
\* the other channel, and every artifact that catalog refers to, as they
\* were when the request began, also when both channels hold a release of
\* the same version.
C24_ChannelsIndependent ==
    req[1].op \in {"upload", "activate", "delete"} =>
        \A c \in Channels \ {TheChannel} :
            /\ load_versions(c) = base.catalog[c]
            /\ catalog_file[c].kind \in {"absent", "json"}
            /\ \A k \in 1 .. Len(base.catalog[c]) :
                    ArtifactSize(downloads, base.catalog[c][k]) =
                        ArtifactSize(base.downloads, base.catalog[c][k])

\* the file name a download asked for
TheFile == req[1].version_info.download_url

\* C25: GET /downloads/<filename> needs no session: it returns the bytes of
\* the file of that name when the artifact folder has one, 404 otherwise, and
\* changes neither a catalog nor the artifact folder.
C25_FetchPublic ==
    Answered("download") =>
        /\ IF TheFile \in DOMAIN base.downloads
           THEN req[1].status = 200 /\ req[1].body = <<base.downloads[TheFile]>>
           ELSE req[1].status = 404
        /\ downloads = base.downloads
        /\ \A c \in Channels :
                load_versions(c) = base.catalog[c]
                    /\ catalog_file[c].kind \in {"absent", "json"}

\* a client without a session has downloaded an artifact of 20 bytes
C25_Witness ==
    /\ Answered("download")
    /\ ~LoggedIn
    /\ req[1].status = 200
    /\ req[1].body = <<20>>
    /\ Len(load_versions("game")) = 2

\* the two entries agree in every field but is_active
SameRelease(v, w) ==
    [v EXCEPT !.is_active = FALSE] = [w EXCEPT !.is_active = FALSE]

\* C28: Activate and Delete leave version, download_url, release_notes,
\* file_size and release_date of every entry that stays in the catalog as
\* they were; Activate keeps the entries and their order and the artifacts,
\* and changes is_active flags only.
C28_ReleaseFieldsImmutable ==
    /\ Answered("activate") =>
            /\ Len(New) = Len(Old)
            /\ \A k \in 1 .. Len(Old) : SameRelease(New[k], Old[k])
            /\ downloads = base.downloads
    /\ Answered("delete") =>
            \A k \in 1 .. Len(New) :
                \E j \in 1 .. Len(Old) : New[k] = Old[j]

\* an Activate has moved the flag in a catalog of two releases with
\* different release dates
C28_Witness ==
    /\ Answered("activate")
    /\ req[1].status = 200
    /\ Len(Old) = 2
    /\ New # Old
    /\ Old[1].release_date # Old[2].release_date
    /\ Old[1].release_notes # Old[2].release_notes

\* C29: the queries only read: no GET of the active release or of the
\* history changes the catalog file of any channel or the artifact folder,
\* so the stored order of the entries is the same after any number of reads,
\* although the history sorts the list it has loaded.
C29_QueriesOnlyRead ==
    [][UNCHANGED <<catalog_file, downloads>>]_vars

\* a history was answered in an order that is not the stored order of the
\* three entries
C29_Witness ==
    /\ Answered("history")
    /\ req[1].status = 200
    /\ Len(req[1].body) = 3
    /\ req[1].body # load_versions(TheChannel)
    /\ load_versions(TheChannel) = base.catalog[TheChannel]

\* C30: an Upload whose upload_type is neither "game" nor "launcher" is
\* answered 404 and changes no catalog and no artifact, whatever else the
\* form holds that would pass the checks.
C30_UnknownChannelNotFound ==
    [][\A version \in Versions, payload \in Payloads :
        upload_game_version(1, [filename |-> ZipName, present |-> TRUE],
                            version, payload, "beta")
        => /\ req'[1].pc = "done"
           /\ req'[1].status = 404
           /\ UNCHANGED <<catalog_file, downloads>>]_vars

\* C26: no request blocks: when every thread that can take a step is
\* scheduled in the end, each Upload, Activate, Delete and query that has
\* started is answered, whatever requests run at the same time on its own or
\* on the other channel.
C26_RequestsComplete ==
    \A i \in Reqs : InProgress(i) ~> (req[i].pc = "done")

\* two mutations that ran at the same time on different channels are both
\* answered
C26_Witness ==
    /\ req[1].pc = "done"
    /\ req[2].pc = "done"
    /\ req[1].channel # req[2].channel
    /\ req[1].op = "upload"
    /\ req[2].op = "upload"
    /\ req[1].status = 200
    /\ req[2].status = 200

\* C31: when requests run one after another, a catalog that holds a release
\* when a request begins holds one when the request is answered, and an
\* active one: after the first successful Upload on a channel its catalog is
\* never empty again and GET /api/version never answers 404 again.
C31_NeverEmptyAgain ==
    Quiescent =>
        /\ \A c \in Channels :
                base.catalog[c] # <<>> =>
                    /\ load_versions(c) # <<>>
                    /\ get_active_version(c) # NoVersion
        /\ (Answered("upload") /\ req[1].status = 200) =>
                get_active_version(TheChannel) # NoVersion
        /\ (Answered("current") /\ Old # <<>>) => req[1].status = 200

\* a Delete of the only release, which is active, was refused
C31_Witness ==
    /\ Answered("delete")
    /\ req[1].status = 400
    /\ Len(Old) = 1
    /\ load_versions(TheChannel) = Old

\* the download_url of all entries of the catalogs of both channels
References ==
    UNION {{load_versions(c)[k].download_url :
                k \in 1 .. Len(load_versions(c))} : c \in Channels}

\* C32: when requests run one after another without storage failures from
\* empty catalogs and an empty folder, after every request the files of the
\* artifact folder are the download_url of the entries of both catalogs: no
\* entry without its file, no file without an entry.
C32_ArtifactsAreReferences ==
    Quiescent => DOMAIN downloads = References

\* C33: for every interleaving of concurrent Upload, Activate and Delete
\* requests on the game channel, when all of them are answered every entry
\* of the catalog, and so the active release, has its artifact in the
\* folder.
C33_EntriesHaveArtifacts ==
    Quiescent =>
        /\ \A k \in 1 .. Len(load_versions("game")) :
                load_versions("game")[k].download_url \in DOMAIN downloads
        /\ get_active_version("game") # NoVersion =>
                get_active_version("game").download_url \in DOMAIN downloads

\* C34: whenever no request is in progress, the file_size of each catalog
\* entry is the byte length of the file stored under its download_url, after
\* requests one after another and after any interleaving of concurrent
\* Uploads of one version with payloads of different sizes.
C34_FileSizeIsLength ==
    Quiescent =>
        \A k \in 1 .. Len(load_versions("game")) :
            load_versions("game")[k].download_url \in DOMAIN downloads =>
                load_versions("game")[k].file_size =
                    downloads[load_versions("game")[k].download_url]

\* C35: the artifacts of different (channel, version) pairs are different
\* files: an Upload or a Delete of one release leaves the file of every
\* other release, of the same and of the other channel, as it was.
C35_ArtifactsNotShared ==
    (Answered("upload") \/ Answered("delete")) =>
        \A c \in Channels :
            \A k \in 1 .. Len(base.catalog[c]) :
                (c # TheChannel \/ base.catalog[c][k].version # TheVersion)
                => ArtifactSize(downloads, base.catalog[c][k]) =
                        ArtifactSize(base.downloads, base.catalog[c][k])

\* the versions of a catalog in their stored order
VersionOrder(versions) == [k \in 1 .. Len(versions) |-> versions[k].version]

\* the sequence without the element
Without(order, version) == SelectSeq(order, LAMBDA v : v # version)

C37_UserStoreNeverEmpty == users # {}

\* the pages and routes behind login_required that the claim names
Gated == {"admin_interface", "manage_users", "create_user", "delete_user"}

\* this step answers a request to a gated page or route
AnswersGated ==
    /\ req' # req
    /\ req'[1].pc = "done"
    /\ req'[1].op \in Gated

\* C38: the cookie gets a user_id only by a login whose username and
\* password are those of a user in the store, and then holds the id and
\* name of that user; it loses the user_id only by a logout, which empties
\* it. A request to the admin page, the user page, the create-user or the
\* delete-user route without user_id in the cookie is answered with a
\* redirect to login and leaves the user store as it is; with user_id it is
\* not sent to login: the page is shown (200), a create with a name of 3 or
\* more characters that is free and a password of 6 or more adds the user,
\* and a delete with more than one user in the store removes the row.
C38_LoginGate ==
    [][/\ (session' # session /\ LoggedIn') =>
            /\ req'[1].op = "login"
            /\ \E u \in users :
                    /\ u.username = req'[1].username
                    /\ u.password = req'[1].password
                    /\ session' = [user_id |-> u.id, username |-> u.username]
       /\ (LoggedIn /\ ~LoggedIn') =>
            /\ req'[1].op = "logout"
            /\ session' = NoSession
       /\ ~LoggedIn =>
            /\ users' = users
            /\ sqlite_sequence' = sqlite_sequence
            /\ req'[1].pc # "delete_user"
       /\ (AnswersGated /\ ~LoggedIn) =>
            /\ req'[1].status = 302
            /\ req'[1].location = "login"
       /\ (AnswersGated /\ LoggedIn) =>
            /\ req'[1].location # "login"
            /\ req'[1].op \in {"admin_interface", "manage_users"} =>
                    req'[1].status = 200
            /\ (/\ req'[1].op = "create_user"
                /\ Len(req'[1].username) >= 3
                /\ Len(req'[1].password) >= 6
                /\ \A u \in users : u.username # req'[1].username)
               => \E u \in users' \ users :
                        /\ u.username = req'[1].username
                        /\ u.password = req'[1].password
                        /\ users' = users \cup {u}
            /\ (req'[1].op = "delete_user" /\ Cardinality(users) > 1
                    /\ req[1].pc = "delete_user")
               => users' = {u \in users : u.id # req'[1].user_id}
      ]_vars

\* after a user was created by a logged-in client and the client has logged
\* out, a request to delete a user was sent to login and both users remain
C38_Witness ==
    /\ Answered("delete_user")
    /\ ~LoggedIn
    /\ req[1].status = 302
    /\ req[1].location = "login"
    /\ Cardinality(users) = 2
    /\ req[1].user_id \in {u.id : u \in users}

=============================================================================
